---- MODULE Spec2Model ----
(***************************************************************************)
(* A model of the QuantEdge options platform: the margin calculator        *)
(* (src/src/margin_calculator.py) with its validator and broker API        *)
(* handler, and the premium analyzer (src/src/premium_analyzer.py).        *)
(* The options data fetcher (src/src/data_fetcher.py) is modelled by its   *)
(* constructor and its response processing.                                *)
(*                                                                         *)
(* Numbers.  The margin arithmetic (sums, products by 1.0 and 0.5, one     *)
(* quotient) is modelled exactly, on rationals kept in lowest terms; IEEE  *)
(* rounding of very large sums is outside the model.                       *)
(***************************************************************************)
EXTENDS Integers, Sequences, FiniteSets, TLC

\* ------------------------------------------------------------------ bounds

\* the longest current_positions / positions list a caller passes
MaxPositions == 2
MaxTimePoints == 2
MaxOptions == 2

\* ---------------------------------------------------- exact rational numbers

Abs(x) == IF x < 0 THEN -x ELSE x

RECURSIVE Gcd(_, _)
Gcd(a, b) == IF b = 0 THEN a ELSE Gcd(b, a % b)

\* the rational n/d in lowest terms with a positive denominator (d # 0)
Rat(n, d) ==
    LET g == Gcd(Abs(n), Abs(d))
        s == IF d < 0 THEN -1 ELSE 1
    IN  [n |-> (s * n) \div g, d |-> (s * d) \div g]

Num(i) == [n |-> i, d |-> 1]
RatAdd(a, b) == Rat(a.n * b.d + b.n * a.d, a.d * b.d)
RatSub(a, b) == Rat(a.n * b.d - b.n * a.d, a.d * b.d)
RatMul(a, b) == Rat(a.n * b.n, a.d * b.d)
\* a / b for b # 0
RatDiv(a, b) == Rat(a.n * b.d, a.d * b.n)
RatIsZero(a) == a.n = 0
RatLess(a, b) == a.n * b.d < b.n * a.d

\* ------------------------------------------------------------ Python dicts

\* Python's None
None == [none |-> TRUE]

\* dict.get(key, default)
Get(dict, key, default) == IF key \in DOMAIN dict THEN dict[key] ELSE default

\* --------------------------------------------------------------- exceptions

NoError == [type |-> "", msg |-> ""]
ValueError(m) == [type |-> "ValueError", msg |-> m]
ZeroDivisionError == [type |-> "ZeroDivisionError", msg |-> "division by zero"]
AttributeError(m) == [type |-> "AttributeError", msg |-> m]
KeyError(key) == [type |-> "KeyError", msg |-> key]
TypeError(m) == [type |-> "TypeError", msg |-> m]
UnboundLocalError(name) == [type |-> "UnboundLocalError", msg |-> name]
FileNotFoundError == [type |-> "FileNotFoundError", msg |-> "config/api_config.yaml"]

\* ------------------------------------------------------------ DataValidator

UpperCase ==
    {"A", "B", "C", "D", "E", "F", "G", "H", "I", "J", "K", "L", "M",
     "N", "O", "P", "Q", "R", "S", "T", "U", "V", "W", "X", "Y", "Z"}

\* re.match(r'^[A-Z]+$', name), the name a sequence of characters
MatchesInstrument(name) ==
    /\ Len(name) >= 1
    /\ \A k \in 1..Len(name) : name[k] \in UpperCase

\* the methods class DataValidator defines
DataValidatorMethods == {"__init__", "validate_inputs", "validate_margin_inputs"}

\* DataValidator.validate_margin_inputs: the exception it raises, NoError when
\* it returns; the checks run in the order of the code
validate_margin_inputs(instrument_name, strike_price, side, qty, position_type) ==
    IF ~MatchesInstrument(instrument_name)
        THEN ValueError("Invalid instrument name format")
    ELSE IF strike_price <= 0
        THEN ValueError("Strike price must be positive")
    ELSE IF side \notin {"CE", "PE"}
        THEN ValueError("Side must be either 'CE' or 'PE'")
    ELSE IF qty <= 0
        THEN ValueError("Quantity must be positive")
    ELSE IF position_type \notin {"buy", "sell"}
        THEN ValueError("Position type must be either 'buy' or 'sell'")
    ELSE NoError

\* ------------------------------------------------------- the callers' inputs

NIFTY == <<"N", "I", "F", "T", "Y">>

\* position dictionaries a caller may pass
GoodSell ==
    [instrument_name |-> NIFTY, strike_price |-> 18000, side |-> "CE",
     qty |-> 1, position_type |-> "sell"]
\* no 'position_type' key: position.get('position_type', 'sell') applies
GoodDefault ==
    [instrument_name |-> NIFTY, strike_price |-> 18000, side |-> "PE", qty |-> 2]
BadName == [GoodSell EXCEPT !.instrument_name = <<"n", "5", "0">>]
BadStrike == [GoodSell EXCEPT !.strike_price = 0]
BadSide == [GoodSell EXCEPT !.side = "XX"]
BadQty == [GoodSell EXCEPT !.qty = 0]
BadType == [GoodSell EXCEPT !.position_type = "hold"]

Positions == {GoodSell, GoodDefault, BadName, BadStrike, BadSide, BadQty, BadType}

\* the arguments calculate_portfolio_margin passes for a position dictionary
PositionArgs(position) ==
    [instrument_name |-> position.instrument_name,
     strike_price |-> position.strike_price,
     side |-> position.side,
     qty |-> position.qty,
     position_type |-> Get(position, "position_type", "sell")]

ValidationError(position) ==
    LET a == PositionArgs(position)
    IN  validate_margin_inputs(a.instrument_name, a.strike_price, a.side,
                               a.qty, a.position_type)

ValidPositions == {p \in Positions : ValidationError(p) = NoError}

RECURSIVE SeqsUpTo(_, _)
SeqsUpTo(S, n) ==
    IF n = 0 THEN {<<>>}
    ELSE LET shorter == SeqsUpTo(S, n - 1)
         IN  shorter \cup {Append(s, x) : s \in {t \in shorter : Len(t) = n - 1}, x \in S}

\* ------------------------------------------------------------ the broker API

\* JSON bodies the margin endpoint may answer with
RawMargins ==
    { [span |-> Num(10000), exposure |-> Num(5000)],
      [span |-> Num(0), exposure |-> Num(0)],
      [span |-> Num(7001)] }

\* what APIHandler.fetch_margin_requirements may raise: a RequestException
\* from the session (logged, then re-raised) or an error raised before the try
RequestException == [type |-> "RequestException", msg |-> "503 Server Error"]
ConfigKeyError == [type |-> "KeyError", msg |-> "base_url"]
LookupFailures == {RequestException, ConfigKeyError}

\* -------------------------------------------------------- MarginCalculator

margin_multipliers == [nfo |-> Num(1), exposure |-> Rat(1, 2), span |-> Num(1)]

\* a slip: the two multipliers exchanged
PositionMarginSwapped(raw_margin) ==
    LET span_margin == RatMul(Get(raw_margin, "span", Num(0)), margin_multipliers.exposure)
        exposure_margin ==
            RatMul(Get(raw_margin, "exposure", Num(0)), margin_multipliers.span)
        total_margin == RatAdd(span_margin, exposure_margin)
    IN  [total_margin |-> total_margin,
         span_margin |-> span_margin,
         exposure_margin |-> exposure_margin,
         breakdown |->
            [span_multiplier |-> margin_multipliers.span,
             exposure_multiplier |-> margin_multipliers.exposure,
             raw_span |-> Get(raw_margin, "span", Num(0)),
             raw_exposure |-> Get(raw_margin, "exposure", Num(0))]]

\* calculate_position_margin, from the raw margin on
PositionMargin(raw_margin) ==
    LET span_margin == RatMul(Get(raw_margin, "span", Num(0)), margin_multipliers.span)
        exposure_margin ==
            RatMul(Get(raw_margin, "exposure", Num(0)), margin_multipliers.exposure)
        total_margin == RatAdd(span_margin, exposure_margin)
    IN  [total_margin |-> total_margin,
         span_margin |-> span_margin,
         exposure_margin |-> exposure_margin,
         breakdown |->
            [span_multiplier |-> margin_multipliers.span,
             exposure_multiplier |-> margin_multipliers.exposure,
             raw_span |-> Get(raw_margin, "span", Num(0)),
             raw_exposure |-> Get(raw_margin, "exposure", Num(0))]]

\* ------------------------------------------------------- floating point
\* The floats of premium_analyzer.py: a finite value known exactly (fin, the
\* rational v), a finite value known only as the expression that produced it
\* (sym, the expression e, the sign s: 1, -1, or 2 when not known), NaN, and an
\* infinity (inf, the sign s; 2 when not known).  Rounding and the sign of zero
\* are outside the model; a sum of infinities of unknown sign counts as nan.
\* Each operation takes its operands by value: it binds them once (x \in {x0})
\* and works on the bound values.

FinV(r) == [k |-> "fin", v |-> r, e |-> <<>>, s |-> 0]
NaN == [k |-> "nan", v |-> Num(0), e |-> <<>>, s |-> 0]
Inf(sign) == [k |-> "inf", v |-> Num(0), e |-> <<>>, s |-> sign]
Sym(expr, sign) == [k |-> "sym", v |-> Num(0), e |-> expr, s |-> sign]

IsFinite(x) == x.k \in {"fin", "sym"}
IsZero(x) == x.k = "fin" /\ x.v.n = 0
IsOne(x) == x.k = "fin" /\ x.v = Num(1)
\* 1, -1, 0 for zero, 2 when not known
SignOf(x) ==
    IF x.k = "fin" THEN (IF x.v.n > 0 THEN 1 ELSE IF x.v.n < 0 THEN -1 ELSE 0) ELSE x.s
SignNeg(sg) == IF sg = 2 THEN 2 ELSE -sg
SignMul(a, b) == IF a = 0 \/ b = 0 THEN 0 ELSE IF a = 2 \/ b = 2 THEN 2 ELSE a * b

FNeg(x0) ==
    CHOOSE r \in {
        CASE x.k = "fin" -> FinV(Rat(-x.v.n, x.v.d))
          [] x.k = "nan" -> NaN
          [] x.k = "inf" -> Inf(SignNeg(x.s))
          [] x.k = "sym" -> Sym(<<"neg", x>>, SignNeg(x.s))
        : x \in {x0}} : TRUE

FAbs(x0) ==
    CHOOSE r \in {
        CASE x.k = "fin" -> FinV(Rat(Abs(x.v.n), x.v.d))
          [] x.k = "nan" -> NaN
          [] x.k = "inf" -> Inf(1)
          [] x.k = "sym" -> IF x.s = 1 THEN x ELSE Sym(<<"abs", x>>, 1)
        : x \in {x0}} : TRUE

FAdd(a0, b0) ==
    CHOOSE r \in {
        IF a.k = "nan" \/ b.k = "nan" THEN NaN
        ELSE IF a.k = "inf" /\ b.k = "inf"
            THEN (IF a.s = b.s /\ a.s # 2 THEN a ELSE NaN)
        ELSE IF a.k = "inf" THEN a
        ELSE IF b.k = "inf" THEN b
        ELSE IF a.k = "fin" /\ b.k = "fin" THEN FinV(RatAdd(a.v, b.v))
        ELSE IF IsZero(a) THEN b
        ELSE IF IsZero(b) THEN a
        ELSE Sym(<<"add", a, b>>,
                 IF SignOf(a) = SignOf(b) /\ SignOf(a) # 2 THEN SignOf(a) ELSE 2)
        : a \in {a0}, b \in {b0}} : TRUE

FSub(a, b) == FAdd(a, FNeg(b))

FMul(a0, b0) ==
    CHOOSE r \in {
        IF a.k = "nan" \/ b.k = "nan" THEN NaN
        ELSE IF a.k = "inf" \/ b.k = "inf"
            THEN (IF IsZero(a) \/ IsZero(b) THEN NaN ELSE Inf(SignMul(SignOf(a), SignOf(b))))
        ELSE IF a.k = "fin" /\ b.k = "fin" THEN FinV(RatMul(a.v, b.v))
        ELSE IF IsZero(a) \/ IsZero(b) THEN FinV(Num(0))
        ELSE IF IsOne(a) THEN b
        ELSE IF IsOne(b) THEN a
        ELSE Sym(<<"mul", a, b>>, SignMul(SignOf(a), SignOf(b)))
        : a \in {a0}, b \in {b0}} : TRUE

\* a / b on floats when the divisor is not zero
FQuot(a0, b0) ==
    CHOOSE r \in {
        IF a.k = "nan" \/ b.k = "nan" THEN NaN
        ELSE IF a.k = "inf"
            THEN (IF b.k = "inf" THEN NaN ELSE Inf(SignMul(a.s, SignOf(b))))
        ELSE IF b.k = "inf" THEN FinV(Num(0))
        ELSE IF a.k = "fin" /\ b.k = "fin" THEN FinV(RatDiv(a.v, b.v))
        ELSE IF IsZero(a) THEN FinV(Num(0))
        ELSE IF IsOne(b) THEN a
        ELSE Sym(<<"div", a, b>>, SignMul(SignOf(a), SignOf(b)))
        : a \in {a0}, b \in {b0}} : TRUE

\* numpy.float64 / numpy.float64: a zero divisor gives nan or an infinity (and
\* a RuntimeWarning), never an exception
NpDiv(a0, b0) ==
    CHOOSE r \in {
        IF IsZero(b)
            THEN (IF a.k = "nan" \/ IsZero(a) THEN NaN ELSE Inf(SignOf(a)))
            ELSE FQuot(a, b)
        : a \in {a0}, b \in {b0}} : TRUE

\* Python's float / float: a zero divisor raises ZeroDivisionError
PyDiv(a0, b0) ==
    CHOOSE r \in {
        IF IsZero(b)
            THEN [raised |-> ZeroDivisionError, value |-> NaN]
            ELSE [raised |-> NoError, value |-> FQuot(a, b)]
        : a \in {a0}, b \in {b0}} : TRUE

\* numpy.log
NpLog(x0) ==
    CHOOSE r \in {
        CASE x.k = "nan" -> NaN
          [] x.k = "inf" -> IF x.s = 1 THEN Inf(1) ELSE NaN
          [] x.k = "sym" -> IF x.s = 1 THEN Sym(<<"log", x>>, 2) ELSE NaN
          [] x.k = "fin" ->
                IF x.v.n < 0 THEN NaN
                ELSE IF x.v.n = 0 THEN Inf(-1)
                ELSE IF x.v = Num(1) THEN FinV(Num(0))
                ELSE Sym(<<"log", x>>, IF RatLess(Num(1), x.v) THEN 1 ELSE -1)
        : x \in {x0}} : TRUE

\* numpy.sqrt
NpSqrt(x0) ==
    CHOOSE r \in {
        CASE x.k = "nan" -> NaN
          [] x.k = "inf" -> IF x.s = 1 THEN Inf(1) ELSE NaN
          [] x.k = "sym" -> IF x.s = 1 THEN Sym(<<"sqrt", x>>, 1) ELSE NaN
          [] x.k = "fin" ->
                IF x.v.n < 0 THEN NaN
                ELSE IF x.v.n = 0 \/ x.v = Num(1) THEN x
                ELSE Sym(<<"sqrt", x>>, 1)
        : x \in {x0}} : TRUE

\* numpy.exp
NpExp(x0) ==
    CHOOSE r \in {
        CASE x.k = "nan" -> NaN
          [] x.k = "inf" -> IF x.s = 1 THEN Inf(1) ELSE IF x.s = -1 THEN FinV(Num(0)) ELSE NaN
          [] x.k = "sym" -> Sym(<<"exp", x>>, 1)
          [] x.k = "fin" -> IF x.v.n = 0 THEN FinV(Num(1)) ELSE Sym(<<"exp", x>>, 1)
        : x \in {x0}} : TRUE

\* scipy.stats.norm.cdf
NormCdf(x0) ==
    CHOOSE r \in {
        CASE x.k = "nan" -> NaN
          [] x.k = "inf" ->
                IF x.s = 1 THEN FinV(Num(1)) ELSE IF x.s = -1 THEN FinV(Num(0))
                ELSE Sym(<<"cdf", x>>, 2)
          [] x.k = "sym" -> Sym(<<"cdf", x>>, 1)
          [] x.k = "fin" -> IF x.v.n = 0 THEN FinV(Rat(1, 2)) ELSE Sym(<<"cdf", x>>, 1)
        : x \in {x0}} : TRUE

\* scipy.stats.norm.pdf
NormPdf(x0) ==
    CHOOSE r \in {
        CASE x.k = "nan" -> NaN
          [] x.k = "inf" -> FinV(Num(0))
          [] x.k = "sym" -> Sym(<<"pdf", x>>, 1)
          [] x.k = "fin" -> Sym(<<"pdf", x>>, 1)
        : x \in {x0}} : TRUE

\* Python's max(0, x): x when x > 0 holds, else 0
PyMax0(x0) ==
    CHOOSE r \in {
        CASE x.k = "nan" -> FinV(Num(0))
          [] x.k = "inf" -> IF x.s = 1 THEN x ELSE IF x.s = -1 THEN FinV(Num(0))
                            ELSE Sym(<<"max0", x>>, 2)
          [] x.k = "fin" -> IF x.v.n > 0 THEN x ELSE FinV(Num(0))
          [] x.k = "sym" -> IF x.s = 1 THEN x ELSE IF x.s = -1 THEN FinV(Num(0))
                            ELSE Sym(<<"max0", x>>, 2)
        : x \in {x0}} : TRUE

\* ---------------------------------------------------------- PremiumAnalyzer

\* self.risk_free_rate = 0.05
risk_free_rate == Rat(1, 20)

Returns(x) == [raised |-> NoError, value |-> x]
Raises(err) == [raised |-> err, value |-> None]

\* lines 137-144 and 174-181: T, d1 and d2 as both methods compute them; S/K is
\* a Python division, the quotient by sigma*sqrt(T) a numpy one
BlackScholesTerms(current_price, strike_price, days_to_expiry, volatility) ==
    LET T == FinV(Rat(days_to_expiry, 365))
        sigma == FinV(volatility)
        S == FinV(current_price)
        K == FinV(strike_price)
        r == FinV(risk_free_rate)
        ratio == PyDiv(S, K)
        vol_sqrt_T == FMul(sigma, NpSqrt(T))
        d1 == NpDiv(FAdd(NpLog(ratio.value),
                         FMul(FAdd(r, FQuot(FMul(sigma, sigma), FinV(Num(2)))), T)),
                    vol_sqrt_T)
        d2 == FSub(d1, vol_sqrt_T)
    IN  [raised |-> ratio.raised, T |-> T, sigma |-> sigma, S |-> S, K |-> K, r |-> r,
         d1 |-> d1, d2 |-> d2]

\* PremiumAnalyzer._calculate_theoretical_premium, lines 146-151, on the terms b
PremiumFromTerms(b, side) ==
    LET discounted == FMul(b.K, NpExp(FMul(FNeg(b.r), b.T)))
        premium ==
            IF side = "CE"
                THEN FSub(FMul(b.S, NormCdf(b.d1)), FMul(discounted, NormCdf(b.d2)))
                ELSE FSub(FMul(discounted, NormCdf(FNeg(b.d2))),
                          FMul(b.S, NormCdf(FNeg(b.d1))))
    IN  IF b.raised # NoError THEN Raises(b.raised) ELSE Returns(premium)

\* PremiumAnalyzer._calculate_theoretical_premium
calculate_theoretical_premium(current_price, strike_price, days_to_expiry, volatility, side) ==
    CHOOSE out \in {PremiumFromTerms(b, side) :
        b \in {BlackScholesTerms(current_price, strike_price, days_to_expiry,
                                 volatility)}} : TRUE

\* a slip: gamma takes the sign of the side, as delta does
GreeksFromTermsSidedGamma(b, side) ==
    LET sqrt_T == NpSqrt(b.T)
        delta == IF side = "CE" THEN NormCdf(b.d1) ELSE FSub(NormCdf(b.d1), FinV(Num(1)))
        unsigned == NpDiv(NormPdf(b.d1), FMul(FMul(b.S, b.sigma), sqrt_T))
        gamma == IF side = "CE" THEN unsigned ELSE FNeg(unsigned)
        decay == NpDiv(FMul(FMul(FNeg(b.S), NormPdf(b.d1)), b.sigma),
                       FMul(FinV(Num(2)), sqrt_T))
        carry == FMul(FMul(b.r, b.K), NpExp(FMul(FNeg(b.r), b.T)))
        theta ==
            IF side = "CE"
                THEN FSub(decay, FMul(carry, NormCdf(b.d2)))
                ELSE FAdd(decay, FMul(carry, NormCdf(FNeg(b.d2))))
        vega == FMul(FMul(b.S, sqrt_T), NormPdf(b.d1))
    IN  IF b.raised # NoError THEN Raises(b.raised)
        ELSE Returns([delta |-> delta, gamma |-> gamma, theta |-> theta, vega |-> vega])

\* PremiumAnalyzer._calculate_greeks, lines 183-203, on the terms b
GreeksFromTerms(b, side) ==
    LET sqrt_T == NpSqrt(b.T)
        delta == IF side = "CE" THEN NormCdf(b.d1) ELSE FSub(NormCdf(b.d1), FinV(Num(1)))
        gamma == NpDiv(NormPdf(b.d1), FMul(FMul(b.S, b.sigma), sqrt_T))
        decay == NpDiv(FMul(FMul(FNeg(b.S), NormPdf(b.d1)), b.sigma),
                       FMul(FinV(Num(2)), sqrt_T))
        carry == FMul(FMul(b.r, b.K), NpExp(FMul(FNeg(b.r), b.T)))
        theta ==
            IF side = "CE"
                THEN FSub(decay, FMul(carry, NormCdf(b.d2)))
                ELSE FAdd(decay, FMul(carry, NormCdf(FNeg(b.d2))))
        vega == FMul(FMul(b.S, sqrt_T), NormPdf(b.d1))
    IN  IF b.raised # NoError THEN Raises(b.raised)
        ELSE Returns([delta |-> delta, gamma |-> gamma, theta |-> theta, vega |-> vega])

\* PremiumAnalyzer._calculate_greeks
calculate_greeks(current_price, strike_price, days_to_expiry, volatility, side) ==
    CHOOSE out \in {GreeksFromTerms(b, side) :
        b \in {BlackScholesTerms(current_price, strike_price, days_to_expiry,
                                 volatility)}} : TRUE

\* PremiumAnalyzer._calculate_max_profit: float('inf') for a call
calculate_max_profit(premium, strike_price, side) ==
    IF side = "CE" THEN Inf(1) ELSE PyMax0(FSub(strike_price, premium))

\* PremiumAnalyzer._calculate_max_loss
calculate_max_loss(premium, strike_price, side) == premium

\* PremiumAnalyzer._calculate_risk_metrics, line 266: a Python division
RiskRewardRatio(max_profit, max_loss) ==
    IF max_profit # Inf(1)
        THEN CHOOSE out \in {[raised |-> q.raised, value |-> FAbs(q.value)] :
                 q \in {PyDiv(max_loss, max_profit)}} : TRUE
        ELSE Returns(FinV(Num(0)))

\* PremiumAnalyzer._calculate_risk_metrics, lines 269-278, given the ratio and
\* the quotient (max_profit - premium) / premium; the third division is by the
\* volatility
RiskMetricsFrom(ratio, potential, volatility) ==
    IF ratio.raised # NoError THEN Raises(ratio.raised)
    ELSE IF potential.raised # NoError THEN Raises(potential.raised)
    ELSE CHOOSE out \in {
            IF adjusted.raised # NoError THEN Raises(adjusted.raised)
            ELSE Returns([risk_reward_ratio |-> ratio.value,
                          annual_return_potential |-> annual,
                          volatility_adjusted_return |-> adjusted.value])
            : annual \in {FMul(potential.value, FinV(Num(100)))},
              adjusted \in {PyDiv(FMul(potential.value, FinV(Num(100))), volatility)}} : TRUE

\* PremiumAnalyzer._calculate_risk_metrics: three Python divisions, each
\* raising ZeroDivisionError on a zero divisor
calculate_risk_metrics(premium, max_profit, max_loss, volatility) ==
    CHOOSE out \in {RiskMetricsFrom(ratio, potential, volatility) :
        ratio \in {RiskRewardRatio(max_profit, max_loss)},
        potential \in {PyDiv(FSub(max_profit, premium), premium)}} : TRUE

\* PremiumAnalyzer.calculate_premium_metrics, lines 98-114: the risk metrics
\* and the report
PremiumReport(greeks, premium, max_profit, max_loss, volatility, lot_size) ==
    CHOOSE out \in {
        IF risk_metrics.raised # NoError THEN Raises(risk_metrics.raised)
        ELSE Returns([premium |-> premium,
                      total_premium |-> FMul(premium, FinV(Num(lot_size))),
                      daily_theta_decay |-> FAbs(greeks.theta),
                      greeks |-> greeks,
                      max_profit |-> max_profit,
                      max_loss |-> max_loss,
                      risk_metrics |-> risk_metrics.value])
        : risk_metrics \in {calculate_risk_metrics(premium, max_profit, max_loss,
                                                   volatility)}} : TRUE

\* PremiumAnalyzer.calculate_premium_metrics, lines 71-96, given what the
\* Greeks and the pricing calls gave
PremiumMetricsFrom(greeks, priced, strike_price, volatility, side, lot_size) ==
    IF greeks.raised # NoError THEN Raises(greeks.raised)
    ELSE IF priced.raised # NoError THEN Raises(priced.raised)
    ELSE CHOOSE out \in {
            PremiumReport(greeks.value, priced.value, max_profit, max_loss,
                          volatility, lot_size)
            : max_profit \in {calculate_max_profit(priced.value, strike_price, side)},
              max_loss \in {calculate_max_loss(priced.value, strike_price, side)}} : TRUE

\* PremiumAnalyzer.calculate_premium_metrics, after the validator call: both
\* helpers get the arguments of the call itself
PremiumMetricsBody(current_price, strike_price, days_to_expiry, volatility, side, lot_size) ==
    CHOOSE out \in {
        PremiumMetricsFrom(greeks, priced, FinV(strike_price), FinV(volatility),
                           side, lot_size)
        : greeks \in {calculate_greeks(current_price, strike_price, days_to_expiry,
                                       volatility, side)},
          priced \in {calculate_theoretical_premium(current_price, strike_price,
                                                    days_to_expiry, volatility, side)}} : TRUE

\* PremiumAnalyzer.calculate_premium_metrics: line 62 looks
\* validate_premium_inputs up on the DataValidator, which raises AttributeError
\* when the class defines no such method
calculate_premium_metrics(current_price, strike_price, days_to_expiry, volatility, side, lot_size) ==
    IF "validate_premium_inputs" \notin DataValidatorMethods
        THEN Raises(AttributeError("'DataValidator' object has no attribute 'validate_premium_inputs'"))
        ELSE PremiumMetricsBody(current_price, strike_price, days_to_expiry,
                                volatility, side, lot_size)

\* dict[key]: KeyError when the dictionary has no such key
GetItem(dict, key) ==
    IF key \in DOMAIN dict THEN Returns(dict[key]) ELSE Raises(KeyError(key))

\* pd.DataFrame(decay_data): one row per dictionary of the list, in its order
DataFrame(rows) == [rows |-> rows]

\* analyze_premium_decay, lines 298-306: one pass of the loop body. Line 298
\* reads 'daily_theta_decay', line 299 reads the key 'pre mium', line 305
\* divides by premium_metrics['premium'] (a Python division)
DecayRow(premium_metrics, days) ==
    CHOOSE out \in {
        IF theta.raised # NoError THEN Raises(theta.raised)
        ELSE IF held.raised # NoError THEN Raises(held.raised)
        ELSE IF base.raised # NoError THEN Raises(base.raised)
        ELSE CHOOSE row \in {
                IF share.raised # NoError THEN Raises(share.raised)
                ELSE Returns([days |-> days,
                              premium |-> PyMax0(FSub(held.value, theta_decay)),
                              decay_amount |-> theta_decay,
                              decay_percentage |-> FMul(share.value, FinV(Num(100)))])
                : theta_decay \in {FMul(theta.value, FinV(Num(days)))},
                  share \in {PyDiv(FMul(theta.value, FinV(Num(days))), base.value)}} : TRUE
        : theta \in {GetItem(premium_metrics, "daily_theta_decay")},
          held \in {GetItem(premium_metrics, "pre mium")},
          base \in {GetItem(premium_metrics, "premium")}} : TRUE

\* analyze_premium_decay, lines 295-306: decay_data after the loop over
\* time_points, or the exception that left the loop
RECURSIVE DecayData(_, _)
DecayData(premium_metrics, time_points) ==
    IF time_points = <<>> THEN Returns(<<>>)
    ELSE CHOOSE out \in {
            IF row.raised # NoError THEN Raises(row.raised)
            ELSE CHOOSE rest \in {
                    IF tail.raised # NoError THEN Raises(tail.raised)
                    ELSE Returns(<<row.value>> \o tail.value)
                    : tail \in {DecayData(premium_metrics, Tail(time_points))}} : TRUE
            : row \in {DecayRow(premium_metrics, Head(time_points))}} : TRUE

\* PremiumAnalyzer.analyze_premium_decay
analyze_premium_decay(premium_metrics, time_points) ==
    CHOOSE out \in {
        IF data.raised # NoError THEN Raises(data.raised)
        ELSE Returns(DataFrame(data.value))
        : data \in {DecayData(premium_metrics, time_points)}} : TRUE

\* ------------------------------------------------------- OptionsDataFetcher

\* APIHandler.__init__(self, broker="upstox"): the parameters after self
APIHandlerParams == <<"broker">>

\* APIHandler(*positional): Python binds the positional arguments to the
\* parameters and raises TypeError when there are more of them; then
\* _load_config opens config/api_config.yaml, logging and re-raising what fails
APIHandlerInit(positional, config) ==
    IF Len(positional) > Len(APIHandlerParams)
        THEN Raises(TypeError("__init__() takes from 1 to 2 positional arguments but 3 were given"))
    ELSE IF config = "missing" THEN Raises(FileNotFoundError)
    ELSE Returns([broker |-> positional[1], config |-> config])

\* OptionsDataFetcher.__init__(broker, api_key): line 27 passes both to APIHandler
OptionsDataFetcherInit(broker, api_key, config) ==
    CHOOSE out \in {
        IF handler.raised # NoError THEN Raises(handler.raised)
        ELSE Returns([api_handler |-> handler.value,
                      lot_sizes |-> [NIFTY |-> 50, BANKNIFTY |-> 25, FINNIFTY |-> 40]])
        : handler \in {APIHandlerInit(<<broker, api_key>>, config)}} : TRUE

\* a local variable before its first assignment, and once it holds a value
Unbound == [bound |-> FALSE]
Bound(value) == [bound |-> TRUE, value |-> value]

\* Python's truth value of the strike_range argument: None and {} are false
Truthy(strike_range) == strike_range # None /\ DOMAIN strike_range # {}

\* _process_option_chain, lines 95-101: float(option.get('strikePrice', 0)) and
\* the range test; the strikes are whole numbers, which float() keeps
StrikeOf(option) == Get(option, "strikePrice", 0)
Skipped(option, strike_range) ==
    /\ Truthy(strike_range)
    /\ \/ StrikeOf(option) < strike_range.lower
       \/ StrikeOf(option) > strike_range.upper

\* _process_option_chain, lines 107-120: the row appended for an option
OptionRow(option) ==
    [strike_price |-> StrikeOf(option),
     bid_price |-> Get(option, "bidPrice", 0),
     ask_price |-> Get(option, "askPrice", 0),
     bid_qty |-> Get(option, "bidQty", 0),
     ask_qty |-> Get(option, "askQty", 0),
     oi |-> Get(option, "openInterest", 0),
     volume |-> Get(option, "volume", 0),
     iv |-> Get(option, "impliedVolatility", 0),
     delta |-> Get(option, "delta", 0),
     theta |-> Get(option, "theta", 0),
     vega |-> Get(option, "vega", 0),
     gamma |-> Get(option, "gamma", 0)]

\* _process_option_chain, lines 92-120: the loop, from the locals it has
\* reached; price is assigned only in a pass that is not skipped (lines 104-105)
RECURSIVE OptionLoop(_, _, _, _)
OptionLoop(options, side, strike_range, locals) ==
    IF options = <<>> THEN locals
    ELSE CHOOSE out \in {
            OptionLoop(Tail(options), side, strike_range,
                IF Skipped(option, strike_range) THEN locals
                ELSE [options_data |-> Append(locals.options_data, OptionRow(option)),
                      price |-> Bound(IF side = "PE" THEN Get(option, "bidPrice", 0)
                                      ELSE Get(option, "askPrice", 0))])
            : option \in {Head(options)}} : TRUE

\* _process_option_chain, lines 122-130: the DataFrame and its three added
\* columns; line 126 reads the local price
TableFrom(locals, side) ==
    IF ~locals.price.bound THEN Raises(UnboundLocalError("price"))
    ELSE Returns(DataFrame(
            [k \in 1..Len(locals.options_data) |->
                locals.options_data[k] @@
                    [price |-> locals.price.value, side |-> side, timestamp |-> "now"]]))

\* OptionsDataFetcher._process_option_chain
process_option_chain(raw_data, side, strike_range) ==
    CHOOSE out \in {TableFrom(locals, side) :
        locals \in {OptionLoop(Get(raw_data, "data", <<>>), side, strike_range,
                               [options_data |-> <<>>, price |-> Unbound])}} : TRUE

\* ------------------------------------------------------------------- state

Callers == {"A", "B"}

VARIABLES
    quote,           \* the broker: the raw margin it answers for each position
    api_log,         \* what APIHandler has written with logging.error
    pc,              \* per caller: where its call stands
    op,              \* per caller: the public method it called
    args,            \* per caller: the arguments of that call
    phase,           \* per caller: in estimate_margin_impact, which portfolio call runs
    positions,       \* per caller: calculate_portfolio_margin's parameter
    idx,             \* per caller: the loop's index into positions
    total_margin,    \* per caller: calculate_portfolio_margin's local
    margin_details,  \* per caller: calculate_portfolio_margin's local
    raw_margin,      \* per caller: calculate_position_margin's local
    current_margin,  \* per caller: estimate_margin_impact's local
    lookups,         \* per caller: its requests to the broker and their answers, in order
    result,          \* per caller: what the call returned
    error,           \* per caller: the exception that ended the call
    pcall,           \* PremiumAnalyzer: the method called and its arguments
    presult,         \* PremiumAnalyzer: what it returned
    perror,          \* PremiumAnalyzer: the exception it raised
    fcall,           \* OptionsDataFetcher: the call made (method and arguments)
    fresult,         \* OptionsDataFetcher: what the call returned
    ferror           \* OptionsDataFetcher: the exception it raised

marginVars ==
    <<quote, api_log, pc, op, args, phase, positions, idx, total_margin,
      margin_details, raw_margin, current_margin, lookups, result, error>>
premiumVars == <<pcall, presult, perror>>
fetcherVars == <<fcall, fresult, ferror>>
vars ==
    <<quote, api_log, pc, op, args, phase, positions, idx, total_margin,
      margin_details, raw_margin, current_margin, lookups, result, error,
      pcall, presult, perror, fcall, fresult, ferror>>

NoCall == [method |-> "none"]

MarginInit ==
    /\ quote \in [ValidPositions -> RawMargins]
    /\ api_log = <<>>
    /\ pc = [c \in Callers |-> "idle"]
    /\ op = [c \in Callers |-> "none"]
    /\ args = [c \in Callers |-> None]
    /\ phase = [c \in Callers |-> 0]
    /\ positions = [c \in Callers |-> <<>>]
    /\ idx = [c \in Callers |-> 0]
    /\ total_margin = [c \in Callers |-> Num(0)]
    /\ margin_details = [c \in Callers |-> <<>>]
    /\ raw_margin = [c \in Callers |-> None]
    /\ current_margin = [c \in Callers |-> None]
    /\ lookups = [c \in Callers |-> <<>>]
    /\ result = [c \in Callers |-> None]
    /\ error = [c \in Callers |-> NoError]

PremiumIdle ==
    /\ pcall = NoCall
    /\ presult = None
    /\ perror = NoError

FetcherIdle ==
    /\ fcall = NoCall
    /\ fresult = None
    /\ ferror = NoError

Init == MarginInit /\ PremiumIdle /\ FetcherIdle

\* ------------------------------------------- MarginCalculator, step by step

\* entering calculate_portfolio_margin(list): total_margin = 0, margin_details = []
EnterPortfolio(c, list) ==
    /\ positions' = [positions EXCEPT ![c] = list]
    /\ idx' = [idx EXCEPT ![c] = 1]
    /\ total_margin' = [total_margin EXCEPT ![c] = Num(0)]
    /\ margin_details' = [margin_details EXCEPT ![c] = <<>>]
    /\ pc' = [pc EXCEPT ![c] = IF Len(list) = 0 THEN "portfolio_return" ELSE "validate"]

\* the exception e leaves the public method: nothing in it catches
Raise(c, e) ==
    /\ error' = [error EXCEPT ![c] = e]
    /\ pc' = [pc EXCEPT ![c] = "done"]

\* a caller calls calculate_position_margin with the fields of p
CallPosition(c) ==
    /\ pc[c] = "idle"
    /\ \E p \in Positions :
        /\ op' = [op EXCEPT ![c] = "position"]
        /\ args' = [args EXCEPT ![c] = [position |-> p]]
        /\ positions' = [positions EXCEPT ![c] = <<p>>]
    /\ idx' = [idx EXCEPT ![c] = 1]
    /\ pc' = [pc EXCEPT ![c] = "validate"]
    /\ UNCHANGED <<quote, api_log, phase, total_margin, margin_details, raw_margin,
                   current_margin, lookups, result, error, premiumVars, fetcherVars>>

\* a caller calls calculate_portfolio_margin(ps)
CallPortfolio(c) ==
    /\ pc[c] = "idle"
    /\ \E ps \in SeqsUpTo(Positions, MaxPositions) :
        /\ op' = [op EXCEPT ![c] = "portfolio"]
        /\ args' = [args EXCEPT ![c] = [positions |-> ps]]
        /\ EnterPortfolio(c, ps)
    /\ UNCHANGED <<quote, api_log, phase, raw_margin, current_margin, lookups,
                   result, error, premiumVars, fetcherVars>>

\* a caller calls estimate_margin_impact(ps, p): line 144 enters the first
\* calculate_portfolio_margin
CallImpact(c) ==
    /\ pc[c] = "idle"
    /\ \E ps \in SeqsUpTo(Positions, MaxPositions), p \in Positions :
        /\ op' = [op EXCEPT ![c] = "impact"]
        /\ args' = [args EXCEPT ![c] = [current_positions |-> ps, new_position |-> p]]
        /\ EnterPortfolio(c, ps)
    /\ phase' = [phase EXCEPT ![c] = 1]
    /\ UNCHANGED <<quote, api_log, raw_margin, current_margin, lookups, result,
                   error, premiumVars, fetcherVars>>

\* a slip: the lookup is issued first and the validator's verdict is acted on
\* after it; the broker refuses the invalid position
ValidateAfterLookup(c) ==
    /\ pc[c] = "validate"
    /\ LET e == ValidationError(positions[c][idx[c]])
       IN  IF e = NoError
               THEN /\ pc' = [pc EXCEPT ![c] = "fetch"]
                    /\ UNCHANGED <<error, lookups>>
               ELSE /\ lookups' = [lookups EXCEPT ![c] =
                            Append(@, [position |-> positions[c][idx[c]],
                                       answer |-> RequestException])]
                    /\ Raise(c, e)
    /\ UNCHANGED <<quote, api_log, op, args, phase, positions, idx, total_margin,
                   margin_details, raw_margin, current_margin, result,
                   premiumVars, fetcherVars>>

\* calculate_position_margin, lines 55-62: validate_margin_inputs returns or raises
Validate(c) ==
    /\ pc[c] = "validate"
    /\ LET e == ValidationError(positions[c][idx[c]])
       IN  IF e = NoError
               THEN /\ pc' = [pc EXCEPT ![c] = "fetch"]
                    /\ UNCHANGED error
               ELSE Raise(c, e)
    /\ UNCHANGED <<quote, api_log, op, args, phase, positions, idx, total_margin,
                   margin_details, raw_margin, current_margin, lookups, result,
                   premiumVars, fetcherVars>>

\* fetch_margin_requirements answers: the request is made, the JSON body returned
FetchReturns(c) ==
    /\ pc[c] = "fetch"
    /\ lookups' = [lookups EXCEPT ![c] =
            Append(@, [position |-> positions[c][idx[c]],
                       answer |-> quote[positions[c][idx[c]]]])]
    /\ raw_margin' = [raw_margin EXCEPT ![c] = quote[positions[c][idx[c]]]]
    /\ pc' = [pc EXCEPT ![c] = "compute"]
    /\ UNCHANGED <<quote, api_log, op, args, phase, positions, idx, total_margin,
                   margin_details, current_margin, result, error, premiumVars, fetcherVars>>

\* a slip: the handler swallows the failure and an empty margin is used
FetchRaisesSwallowed(c) ==
    /\ pc[c] = "fetch"
    /\ \E e \in LookupFailures :
        /\ lookups' = [lookups EXCEPT ![c] =
                Append(@, [position |-> positions[c][idx[c]], answer |-> e])]
        /\ api_log' = Append(api_log, e.msg)
    /\ raw_margin' = [raw_margin EXCEPT ![c] = [span |-> Num(0), exposure |-> Num(0)]]
    /\ pc' = [pc EXCEPT ![c] = "compute"]
    /\ UNCHANGED <<quote, op, args, phase, positions, idx, total_margin,
                   margin_details, current_margin, result, error, premiumVars, fetcherVars>>

\* fetch_margin_requirements fails: a RequestException is logged and re-raised
\* (lines 79-81), any other exception just propagates; calculate_position_margin
\* and its callers have no handler
FetchRaises(c) ==
    /\ pc[c] = "fetch"
    /\ \E e \in LookupFailures :
        /\ lookups' = [lookups EXCEPT ![c] =
                Append(@, [position |-> positions[c][idx[c]], answer |-> e])]
        /\ api_log' = IF e.type = "RequestException"
                          THEN Append(api_log, e.msg) ELSE api_log
        /\ Raise(c, e)
    /\ UNCHANGED <<quote, op, args, phase, positions, idx, total_margin,
                   margin_details, raw_margin, current_margin, result, premiumVars, fetcherVars>>

\* a slip: the running total kept on the calculator (self.total_margin), one
\* attribute for all the calls in progress
AccumulateShared(c, margin) ==
    /\ total_margin' = [d \in Callers |-> RatAdd(total_margin[c], margin.total_margin)]
    /\ margin_details' = [margin_details EXCEPT ![c] =
            Append(@, [position |-> positions[c][idx[c]], margin_details |-> margin])]
    /\ idx' = [idx EXCEPT ![c] = @ + 1]
    /\ pc' = [pc EXCEPT ![c] =
            IF idx[c] + 1 > Len(positions[c]) THEN "portfolio_return" ELSE "validate"]

\* a slip: total_margin = margin['total_margin'] in place of +=
AccumulateLast(c, margin) ==
    /\ total_margin' = [total_margin EXCEPT ![c] = margin.total_margin]
    /\ margin_details' = [margin_details EXCEPT ![c] =
            Append(@, [position |-> positions[c][idx[c]], margin_details |-> margin])]
    /\ idx' = [idx EXCEPT ![c] = @ + 1]
    /\ pc' = [pc EXCEPT ![c] =
            IF idx[c] + 1 > Len(positions[c]) THEN "portfolio_return" ELSE "validate"]

\* a slip: margin_details.insert(0, ...) in place of append
AccumulatePrepend(c, margin) ==
    /\ total_margin' = [total_margin EXCEPT ![c] = RatAdd(@, margin.total_margin)]
    /\ margin_details' = [margin_details EXCEPT ![c] =
            <<[position |-> positions[c][idx[c]], margin_details |-> margin]>> \o @]
    /\ idx' = [idx EXCEPT ![c] = @ + 1]
    /\ pc' = [pc EXCEPT ![c] =
            IF idx[c] + 1 > Len(positions[c]) THEN "portfolio_return" ELSE "validate"]

\* calculate_portfolio_margin, lines 117-121, on the margin of the current position
Accumulate(c, margin) ==
    /\ total_margin' = [total_margin EXCEPT ![c] = RatAdd(@, margin.total_margin)]
    /\ margin_details' = [margin_details EXCEPT ![c] =
            Append(@, [position |-> positions[c][idx[c]], margin_details |-> margin])]
    /\ idx' = [idx EXCEPT ![c] = @ + 1]
    /\ pc' = [pc EXCEPT ![c] =
            IF idx[c] + 1 > Len(positions[c]) THEN "portfolio_return" ELSE "validate"]

\* calculate_position_margin, lines 73-90, and what its caller does with the
\* margin: returns it (a direct call) or accumulates it (the portfolio loop)
ComputeMargin(c) ==
    /\ pc[c] = "compute"
    /\ LET margin == PositionMargin(raw_margin[c])
       IN  IF op[c] = "position"
               THEN /\ result' = [result EXCEPT ![c] = margin]
                    /\ pc' = [pc EXCEPT ![c] = "done"]
                    /\ UNCHANGED <<total_margin, margin_details, idx>>
               ELSE /\ Accumulate(c, margin)
                    /\ UNCHANGED result
    /\ UNCHANGED <<quote, api_log, op, args, phase, positions, raw_margin,
                   current_margin, lookups, error, premiumVars, fetcherVars>>

\* calculate_portfolio_margin's return value, lines 123-126
PortfolioResult(total, details) ==
    [total_portfolio_margin |-> total, position_details |-> details]

\* calculate_portfolio_margin returns to the caller of the public method
PortfolioReturn(c) ==
    /\ pc[c] = "portfolio_return"
    /\ op[c] = "portfolio"
    /\ result' = [result EXCEPT ![c] = PortfolioResult(total_margin[c], margin_details[c])]
    /\ pc' = [pc EXCEPT ![c] = "done"]
    /\ UNCHANGED <<quote, api_log, op, args, phase, positions, idx, total_margin,
                   margin_details, raw_margin, current_margin, lookups, error,
                   premiumVars, fetcherVars>>

\* a slip: the second portfolio call is made on [new_position] alone
ImpactSecondPassNewOnly(c) ==
    /\ pc[c] = "portfolio_return"
    /\ op[c] = "impact"
    /\ phase[c] = 1
    /\ current_margin' = [current_margin EXCEPT ![c] =
            PortfolioResult(total_margin[c], margin_details[c])]
    /\ phase' = [phase EXCEPT ![c] = 2]
    /\ EnterPortfolio(c, <<args[c].new_position>>)
    /\ UNCHANGED <<quote, api_log, op, args, raw_margin, lookups, result, error,
                   premiumVars, fetcherVars>>

\* a slip: new_position is appended to the caller's own list
ImpactSecondPassAppends(c) ==
    /\ pc[c] = "portfolio_return"
    /\ op[c] = "impact"
    /\ phase[c] = 1
    /\ current_margin' = [current_margin EXCEPT ![c] =
            PortfolioResult(total_margin[c], margin_details[c])]
    /\ phase' = [phase EXCEPT ![c] = 2]
    /\ args' = [args EXCEPT ![c].current_positions =
            Append(@, args[c].new_position)]
    /\ EnterPortfolio(c, Append(args[c].current_positions, args[c].new_position))
    /\ UNCHANGED <<quote, api_log, op, raw_margin, lookups, result, error,
                   premiumVars, fetcherVars>>

\* estimate_margin_impact, lines 144-148: the first portfolio call returns into
\* current_margin, and the second is entered on current_positions + [new_position]
ImpactSecondPass(c) ==
    /\ pc[c] = "portfolio_return"
    /\ op[c] = "impact"
    /\ phase[c] = 1
    /\ current_margin' = [current_margin EXCEPT ![c] =
            PortfolioResult(total_margin[c], margin_details[c])]
    /\ phase' = [phase EXCEPT ![c] = 2]
    /\ EnterPortfolio(c, Append(args[c].current_positions, args[c].new_position))
    /\ UNCHANGED <<quote, api_log, op, args, raw_margin, lookups, result, error,
                   premiumVars, fetcherVars>>

\* a slip: the quotient taken over the new margin
ImpactResultOverNew(current, new) ==
    LET margin_impact == RatSub(new.total_portfolio_margin, current.total_portfolio_margin)
    IN  IF RatIsZero(new.total_portfolio_margin)
            THEN [raised |-> ZeroDivisionError]
            ELSE [raised |-> NoError,
                  current_margin |-> current.total_portfolio_margin,
                  new_margin |-> new.total_portfolio_margin,
                  margin_impact |-> margin_impact,
                  percentage_increase |->
                      RatMul(RatDiv(margin_impact, new.total_portfolio_margin),
                             Num(100))]

\* a slip: a zero baseline answered with 0 percent in place of the exception
ImpactResultZeroPercent(current, new) ==
    LET margin_impact == RatSub(new.total_portfolio_margin, current.total_portfolio_margin)
    IN  [raised |-> NoError,
         current_margin |-> current.total_portfolio_margin,
         new_margin |-> new.total_portfolio_margin,
         margin_impact |-> margin_impact,
         percentage_increase |->
            IF RatIsZero(current.total_portfolio_margin) THEN Num(0)
            ELSE RatMul(RatDiv(margin_impact, current.total_portfolio_margin),
                        Num(100))]

\* estimate_margin_impact, lines 150-158, given the two portfolio results; the
\* quotient is a Python division: a zero divisor raises ZeroDivisionError
ImpactResult(current, new) ==
    LET margin_impact == RatSub(new.total_portfolio_margin, current.total_portfolio_margin)
    IN  IF RatIsZero(current.total_portfolio_margin)
            THEN [raised |-> ZeroDivisionError]
            ELSE [raised |-> NoError,
                  current_margin |-> current.total_portfolio_margin,
                  new_margin |-> new.total_portfolio_margin,
                  margin_impact |-> margin_impact,
                  percentage_increase |->
                      RatMul(RatDiv(margin_impact, current.total_portfolio_margin),
                             Num(100))]

\* the second portfolio call returns and estimate_margin_impact finishes
ImpactReturn(c) ==
    /\ pc[c] = "portfolio_return"
    /\ op[c] = "impact"
    /\ phase[c] = 2
    /\ LET r == ImpactResult(current_margin[c],
                             PortfolioResult(total_margin[c], margin_details[c]))
       IN  IF r.raised = NoError
               THEN /\ result' = [result EXCEPT ![c] =
                            [k \in DOMAIN r \ {"raised"} |-> r[k]]]
                    /\ pc' = [pc EXCEPT ![c] = "done"]
                    /\ UNCHANGED error
               ELSE /\ Raise(c, r.raised)
                    /\ UNCHANGED result
    /\ UNCHANGED <<quote, api_log, op, args, phase, positions, idx, total_margin,
                   margin_details, raw_margin, current_margin, lookups, premiumVars, fetcherVars>>

\* one caller using the calculator
Next ==
    \/ CallPosition("A")
    \/ CallPortfolio("A")
    \/ CallImpact("A")
    \/ Validate("A")
    \/ FetchReturns("A")
    \/ FetchRaises("A")
    \/ ComputeMargin("A")
    \/ PortfolioReturn("A")
    \/ ImpactSecondPass("A")
    \/ ImpactReturn("A")

Spec == Init /\ [][Next]_vars

\* ------------------------------------- MarginCalculator, two callers at once

\* what each of the two callers passes: different positions, an invalid one
\* among those of the first
PositionsOf(c) == IF c = "A" THEN {GoodSell, BadQty} ELSE {GoodDefault}

\* a caller calls calculate_position_margin while the other may be in a call
ConcurrentCallPosition(c) ==
    /\ pc[c] = "idle"
    /\ \E p \in PositionsOf(c) :
        /\ op' = [op EXCEPT ![c] = "position"]
        /\ args' = [args EXCEPT ![c] = [position |-> p]]
        /\ positions' = [positions EXCEPT ![c] = <<p>>]
    /\ idx' = [idx EXCEPT ![c] = 1]
    /\ pc' = [pc EXCEPT ![c] = "validate"]
    /\ UNCHANGED <<quote, api_log, phase, total_margin, margin_details, raw_margin,
                   current_margin, lookups, result, error, premiumVars, fetcherVars>>

\* a caller calls calculate_portfolio_margin while the other may be in a call
ConcurrentCallPortfolio(c) ==
    /\ pc[c] = "idle"
    /\ \E ps \in SeqsUpTo(PositionsOf(c), MaxPositions) :
        /\ op' = [op EXCEPT ![c] = "portfolio"]
        /\ args' = [args EXCEPT ![c] = [positions |-> ps]]
        /\ EnterPortfolio(c, ps)
    /\ UNCHANGED <<quote, api_log, phase, raw_margin, current_margin, lookups,
                   result, error, premiumVars, fetcherVars>>

\* a caller calls estimate_margin_impact while the other may be in a call
ConcurrentCallImpact(c) ==
    /\ pc[c] = "idle"
    /\ \E ps \in SeqsUpTo(PositionsOf(c), MaxPositions), p \in PositionsOf(c) :
        /\ op' = [op EXCEPT ![c] = "impact"]
        /\ args' = [args EXCEPT ![c] = [current_positions |-> ps, new_position |-> p]]
        /\ EnterPortfolio(c, ps)
    /\ phase' = [phase EXCEPT ![c] = 1]
    /\ UNCHANGED <<quote, api_log, raw_margin, current_margin, lookups, result,
                   error, premiumVars, fetcherVars>>

\* two callers on one MarginCalculator, their steps interleaved in any order
NextConcurrent ==
    \E c \in Callers :
        \/ ConcurrentCallPosition(c)
        \/ ConcurrentCallPortfolio(c)
        \/ ConcurrentCallImpact(c)
        \/ Validate(c)
        \/ FetchReturns(c)
        \/ FetchRaises(c)
        \/ ComputeMargin(c)
        \/ PortfolioReturn(c)
        \/ ImpactSecondPass(c)
        \/ ImpactReturn(c)

SpecConcurrent == Init /\ [][NextConcurrent]_vars

\* ------------------------------------------ PremiumAnalyzer, call by call

\* the arguments the methods are called with
Prices == {Num(19000), Num(20000), Num(21000)}
Strikes == {Num(20000)}
DaysToExpiry == {0, 30}
Volatilities == {Num(0), Rat(3, 20)}
Sides == {"CE", "PE"}
LotSizes == {50}
Premiums == {FinV(Num(0)), FinV(Num(100)), FinV(Num(25000))}
MaxProfits == {Inf(1), FinV(Num(0)), FinV(Num(19900))}

\* premium reports as calculate_premium_metrics builds them (lines 106-114:
\* the keys read here are 'premium' and 'daily_theta_decay'), and one dictionary
\* of another maker that also carries the key 'pre mium'
ReportPremiums == {FinV(Num(0)), FinV(Num(100))}
ReportThetas == {FinV(Num(0)), FinV(Num(2))}
Reports ==
    {[premium |-> p, total_premium |-> FMul(p, FinV(Num(50))), daily_theta_decay |-> t] :
        p \in ReportPremiums, t \in ReportThetas}
OtherDicts ==
    {[premium |-> FinV(Num(100)), daily_theta_decay |-> FinV(Num(2))]
        @@ ("pre mium" :> FinV(Num(100)))}
DayOffsets == {0, 7, 60}
TimePoints == SeqsUpTo(DayOffsets, MaxTimePoints)

\* the call returns or raises, in one step: the methods keep no state
Finish(call, outcome) ==
    /\ pcall' = call
    /\ presult' = outcome.value
    /\ perror' = outcome.raised
    /\ UNCHANGED <<marginVars, fetcherVars>>

CallTheoreticalPremium ==
    /\ pcall = NoCall
    /\ \E S \in Prices, K \in Strikes, days \in DaysToExpiry, vol \in Volatilities, side \in Sides :
        Finish([method |-> "_calculate_theoretical_premium", current_price |-> S,
                strike_price |-> K, days_to_expiry |-> days, volatility |-> vol,
                side |-> side],
               calculate_theoretical_premium(S, K, days, vol, side))

CallGreeks ==
    /\ pcall = NoCall
    /\ \E S \in Prices, K \in Strikes, days \in DaysToExpiry, vol \in Volatilities, side \in Sides :
        Finish([method |-> "_calculate_greeks", current_price |-> S,
                strike_price |-> K, days_to_expiry |-> days, volatility |-> vol,
                side |-> side],
               calculate_greeks(S, K, days, vol, side))

CallMaxProfit ==
    /\ pcall = NoCall
    /\ \E premium \in Premiums, K \in Strikes, side \in Sides :
        Finish([method |-> "_calculate_max_profit", premium |-> premium,
                strike_price |-> K, side |-> side],
               Returns(calculate_max_profit(premium, FinV(K), side)))

CallMaxLoss ==
    /\ pcall = NoCall
    /\ \E premium \in Premiums, K \in Strikes, side \in Sides :
        Finish([method |-> "_calculate_max_loss", premium |-> premium,
                strike_price |-> K, side |-> side],
               Returns(calculate_max_loss(premium, FinV(K), side)))

CallRiskMetrics ==
    /\ pcall = NoCall
    /\ \E premium \in Premiums, max_profit \in MaxProfits, max_loss \in Premiums, vol \in Volatilities :
        Finish([method |-> "_calculate_risk_metrics", premium |-> premium,
                max_profit |-> max_profit, max_loss |-> max_loss, volatility |-> vol],
               calculate_risk_metrics(premium, max_profit, max_loss, FinV(vol)))

CallPremiumMetrics ==
    /\ pcall = NoCall
    /\ \E S \in Prices, K \in Strikes, days \in DaysToExpiry, vol \in Volatilities, side \in Sides, lot \in LotSizes :
        Finish([method |-> "calculate_premium_metrics", current_price |-> S,
                strike_price |-> K, days_to_expiry |-> days, volatility |-> vol,
                side |-> side, lot_size |-> lot],
               calculate_premium_metrics(S, K, days, vol, side, lot))

CallPremiumDecay ==
    /\ pcall = NoCall
    /\ \E report \in Reports \cup OtherDicts, time_points \in TimePoints :
        Finish([method |-> "analyze_premium_decay", premium_metrics |-> report,
                time_points |-> time_points],
               analyze_premium_decay(report, time_points))

NextPremium ==
    \/ CallTheoreticalPremium
    \/ CallGreeks
    \/ CallMaxProfit
    \/ CallMaxLoss
    \/ CallRiskMetrics
    \/ CallPremiumMetrics
    \/ CallPremiumDecay

SpecPremium == Init /\ [][NextPremium]_vars

\* ------------------------------------------- OptionsDataFetcher, call by call

Brokers == {"upstox", "zerodha"}
ApiKeys == {None, [key |-> "k1"]}
ConfigFiles == {"loaded", "missing"}

\* options of a raw broker response; the last one carries no 'strikePrice'
RawOptions ==
    {[strikePrice |-> 18000, bidPrice |-> 100, askPrice |-> 102, bidQty |-> 500,
      askQty |-> 500, openInterest |-> 1000, volume |-> 5000],
     [strikePrice |-> 18500, bidPrice |-> 80, askPrice |-> 82],
     [strikePrice |-> 19000, bidPrice |-> 60, askPrice |-> 62],
     [bidPrice |-> 5, askPrice |-> 6]}
RawResponses ==
    {[data |-> options] : options \in SeqsUpTo(RawOptions, MaxOptions)}
        \cup {[status |-> "error"]}
StrikeRanges == {None, [lower |-> 18000, upper |-> 18500]}

\* the call returns or raises, in one step
FinishFetcher(call, outcome) ==
    /\ fcall' = call
    /\ fresult' = outcome.value
    /\ ferror' = outcome.raised
    /\ UNCHANGED <<marginVars, premiumVars>>

\* OptionsDataFetcher(broker) or OptionsDataFetcher(broker, api_key)
ConstructFetcher ==
    /\ fcall = NoCall
    /\ \E broker \in Brokers, api_key \in ApiKeys, config \in ConfigFiles :
        FinishFetcher([method |-> "__init__", broker |-> broker, api_key |-> api_key,
                       config |-> config],
                      OptionsDataFetcherInit(broker, api_key, config))

\* _process_option_chain on a raw response, as get_option_chain calls it
\* (line 70); the method reads no attribute of the object
CallProcessOptionChain ==
    /\ fcall = NoCall
    /\ \E raw_data \in RawResponses, side \in Sides, strike_range \in StrikeRanges :
        FinishFetcher([method |-> "_process_option_chain", raw_data |-> raw_data,
                       side |-> side, strike_range |-> strike_range],
                      process_option_chain(raw_data, side, strike_range))

NextFetcher ==
    \/ ConstructFetcher
    \/ CallProcessOptionChain

SpecFetcher == Init /\ [][NextFetcher]_vars

\* =============================================================== the claims

\* ---- what the formulas speak of

\* the call of caller c has ended, by a return or by an exception
Ended(c) == pc[c] = "done"
Returned(c) == pc[c] = "done" /\ error[c] = NoError
AllValid(ps) == \A k \in 1..Len(ps) : ValidationError(ps[k]) = NoError
IsFailure(answer) == "type" \in DOMAIN answer
Asked(c) == [k \in 1..Len(lookups[c]) |-> lookups[c][k].position]

\* the rearrangements of a sequence
Rearrangements(s) ==
    LET n == Len(s)
        bij == {f \in [1..n -> 1..n] : \A i, j \in 1..n : f[i] = f[j] => i = j}
    IN  {[k \in 1..n |-> s[f[k]]] : f \in bij}

\* the sum of the total_margin entries of a list of position details
RECURSIVE SumOfTotals(_)
SumOfTotals(details) ==
    IF details = <<>> THEN Num(0)
    ELSE RatAdd(SumOfTotals(SubSeq(details, 1, Len(details) - 1)),
                details[Len(details)].margin_details.total_margin)

\* the margin the broker's quote q gives position p: raw span x 1.0, raw
\* exposure x 0.5, and their sum
QuotedSpan(q, p) == Get(q[p], "span", Num(0))
QuotedExposure(q, p) == Rat(Get(q[p], "exposure", Num(0)).n, 2 * Get(q[p], "exposure", Num(0)).d)
QuotedTotal(q, p) == RatAdd(QuotedSpan(q, p), QuotedExposure(q, p))

\* the sum of the quoted totals of a list of positions
RECURSIVE QuotedSum(_, _)
QuotedSum(q, ps) ==
    IF ps = <<>> THEN Num(0)
    ELSE RatAdd(QuotedTotal(q, Head(ps)), QuotedSum(q, Tail(ps)))

\* C1: calculate_position_margin returns span_margin = raw span x span
\* multiplier, exposure_margin = raw exposure x exposure multiplier and
\* total_margin = their sum; with the multipliers 1.0 and 0.5 the raw margin
\* {span: 10000, exposure: 5000} gives 10000, 2500 and 12500.
C1_PositionMargin ==
    \A c \in Callers :
        (op[c] = "position" /\ Returned(c)) =>
            LET raw == quote[args[c].position]
                r == result[c]
            IN  /\ r.span_margin = RatMul(Get(raw, "span", Num(0)), margin_multipliers.span)
                /\ r.exposure_margin =
                       RatMul(Get(raw, "exposure", Num(0)), margin_multipliers.exposure)
                /\ r.total_margin = RatAdd(r.span_margin, r.exposure_margin)
                /\ (raw = [span |-> Num(10000), exposure |-> Num(5000)] =>
                        /\ r.span_margin = Num(10000)
                        /\ r.exposure_margin = Num(2500)
                        /\ r.total_margin = Num(12500))

C1_Witness ==
    /\ op["A"] = "position" /\ Returned("A")
    /\ quote[args["A"].position] = [span |-> Num(10000), exposure |-> Num(5000)]
    /\ result["A"].total_margin = Num(12500)

C3_PerPositionList ==
    \A c \in Callers :
        (op[c] = "portfolio" /\ Returned(c)) =>
            LET ps == args[c].positions
                details == result[c].position_details
            IN  /\ Len(details) = Len(ps)
                /\ \A i \in 1..Len(ps) :
                       /\ details[i].position = ps[i]
                       /\ details[i].margin_details.span_margin = QuotedSpan(quote, ps[i])
                       /\ details[i].margin_details.exposure_margin =
                              QuotedExposure(quote, ps[i])
                       /\ details[i].margin_details.total_margin = QuotedTotal(quote, ps[i])

C3_Witness ==
    /\ op["A"] = "portfolio" /\ Returned("A")
    /\ Len(result["A"].position_details) = 2
    /\ args["A"].positions[1] # args["A"].positions[2]
    /\ quote[args["A"].positions[1]] # quote[args["A"].positions[2]]

\* C4: with valid positions, answered lookups and a non-zero current margin,
\* estimate_margin_impact returns current_margin = the portfolio margin of
\* current_positions, new_margin = that of current_positions + [new_position],
\* margin_impact = new_margin - current_margin and percentage_increase =
\* margin_impact / current_margin x 100.
C4_MarginImpact ==
    \A c \in Callers :
        (op[c] = "impact" /\ Ended(c)) =>
            LET cur == args[c].current_positions
                all == Append(cur, args[c].new_position)
                r == result[c]
            IN  /\ (/\ AllValid(all)
                    /\ error[c] \notin LookupFailures
                    /\ ~RatIsZero(QuotedSum(quote, cur))) => error[c] = NoError
                /\ error[c] = NoError =>
                    /\ r.current_margin = QuotedSum(quote, cur)
                    /\ ~RatIsZero(r.current_margin)
                    /\ r.new_margin = QuotedSum(quote, all)
                    /\ r.margin_impact = RatSub(r.new_margin, r.current_margin)
                    /\ r.percentage_increase =
                           Rat(100 * r.margin_impact.n * r.current_margin.d,
                               r.margin_impact.d * r.current_margin.n)

C4_Witness ==
    /\ op["A"] = "impact" /\ Returned("A")
    /\ Len(args["A"].current_positions) = 2
    /\ result["A"].current_margin = Num(19501)
    /\ result["A"].margin_impact = Num(12500)
    /\ result["A"].percentage_increase = Rat(1250000, 19501)

C5_WitnessEmpty ==
    /\ op["A"] = "impact" /\ Ended("A")
    /\ args["A"].current_positions = <<>>
    /\ error["A"] = ZeroDivisionError

\* C6: a failed raw-margin lookup ends the operation with that same failure:
\* it is the last request made (no retry, no further lookup), the caller gets
\* the exception the lookup raised, and no result is returned.
C6_FailurePropagates ==
    \A c \in Callers :
        \A k \in 1..Len(lookups[c]) :
            IsFailure(lookups[c][k].answer) =>
                /\ k = Len(lookups[c])
                /\ Ended(c)
                /\ error[c] = lookups[c][k].answer
                /\ result[c] = None

C6_Witness ==
    /\ op["A"] = "impact" /\ Ended("A")
    /\ phase["A"] = 2
    /\ Len(lookups["A"]) = 3
    /\ lookups["A"][3].answer = RequestException
    /\ error["A"] = RequestException
    /\ ~RatIsZero(total_margin["A"])

\* C7 as claimed: calculate_portfolio_margin and estimate_margin_impact make
\* exactly one lookup per position, in input order.
C7_OneLookupPerPosition ==
    \A c \in Callers :
        /\ (op[c] = "portfolio" /\ Returned(c)) => Asked(c) = args[c].positions
        /\ (op[c] = "impact" /\ Returned(c)) =>
               Asked(c) = Append(args[c].current_positions, args[c].new_position)

\* C7, amended: calculate_portfolio_margin that returns has made one lookup per
\* position, in input order; estimate_margin_impact whose two portfolio
\* computations came back has made 2n + 1 lookups: one per current position,
\* then again one per current position, then one for the new position.
C7_LookupsPerPass ==
    \A c \in Callers :
        /\ (op[c] = "portfolio" /\ Returned(c)) => Asked(c) = args[c].positions
        /\ (op[c] = "impact" /\ Ended(c) /\ error[c] \in {NoError, ZeroDivisionError}) =>
               /\ Asked(c) = args[c].current_positions
                                \o Append(args[c].current_positions, args[c].new_position)
               /\ Len(lookups[c]) = 2 * Len(args[c].current_positions) + 1

C7_Witness ==
    /\ op["A"] = "impact" /\ Returned("A")
    /\ Len(args["A"].current_positions) = 2
    /\ Len(lookups["A"]) = 5

\* ---- the premium analyzer

IsNanOrInf(x) == x.k \in {"nan", "inf"}
Degenerate(call) == call.days_to_expiry = 0 \/ call.volatility.n = 0

\* C8: with days_to_expiry = 0 or volatility = 0 the pricing model and the
\* Greeks calculator fail with an error; they return no premium and no Greek
\* that is NaN or Inf.
C8_DomainError ==
    (/\ pcall.method \in {"_calculate_theoretical_premium", "_calculate_greeks"}
     /\ Degenerate(pcall)) =>
        /\ perror # NoError
        /\ presult = None

\* C9: for valid market inputs and a positive lot size calculate_premium_metrics
\* returns a report with total_premium = premium x lot_size, the premium
\* that of the pricing model and the Greeks those of the Greeks calculator for
\* the same inputs.
C9_FullReport ==
    (/\ pcall.method = "calculate_premium_metrics"
     /\ ~Degenerate(pcall)
     /\ pcall.lot_size > 0) =>
        /\ perror = NoError
        /\ presult.total_premium = FMul(presult.premium, FinV(Num(pcall.lot_size)))
        /\ presult.premium =
               calculate_theoretical_premium(pcall.current_price, pcall.strike_price,
                   pcall.days_to_expiry, pcall.volatility, pcall.side).value
        /\ presult.greeks =
               calculate_greeks(pcall.current_price, pcall.strike_price,
                   pcall.days_to_expiry, pcall.volatility, pcall.side).value

\* C10: max_profit is not a floating-point infinity for a CALL and is
\* max(0, strike_price - premium) for a PUT, and no infinity reaches the
\* arithmetic of the risk metrics (none of them comes out infinite or NaN).
C10_UnboundedSentinel ==
    /\ pcall.method = "_calculate_max_profit" =>
           /\ pcall.side = "CE" => presult.k # "inf"
           /\ pcall.side = "PE" =>
                  presult = (IF RatLess(pcall.premium.v, pcall.strike_price)
                                 THEN FinV(RatSub(pcall.strike_price, pcall.premium.v))
                                 ELSE FinV(Num(0)))
    /\ (pcall.method = "_calculate_risk_metrics" /\ perror = NoError) =>
           /\ ~IsNanOrInf(presult.risk_reward_ratio)
           /\ ~IsNanOrInf(presult.annual_return_potential)
           /\ ~IsNanOrInf(presult.volatility_adjusted_return)

\* ---- the risk metrics

\* C11: risk_reward_ratio is |max_loss / max_profit| for a finite non-zero
\* max_profit and 0 otherwise (max_profit unbounded or 0); with a non-zero
\* premium and volatility, so that no other quotient of the method is
\* undefined, the computation does not fail.
C11_RiskRewardRatio ==
    (/\ pcall.method = "_calculate_risk_metrics"
     /\ ~IsZero(pcall.premium)
     /\ pcall.volatility.n # 0) =>
        /\ perror = NoError
        /\ presult.risk_reward_ratio =
               (IF pcall.max_profit.k = "fin" /\ ~IsZero(pcall.max_profit)
                    THEN FAbs(FQuot(pcall.max_loss, pcall.max_profit))
                    ELSE FinV(Num(0)))

\* C12: the risk metrics fail, returning nothing, whenever premium = 0 or
\* max_profit is unbounded; a call that returns has
\* annual_return_potential = (max_profit - premium) / premium x 100.
C12_FailsWhenUndefined ==
    pcall.method = "_calculate_risk_metrics" =>
        /\ (IsZero(pcall.premium) \/ pcall.max_profit.k = "inf") =>
               /\ perror # NoError
               /\ presult = None
        /\ perror = NoError =>
               presult.annual_return_potential =
                   FMul(FQuot(FSub(pcall.max_profit, pcall.premium), pcall.premium),
                        FinV(Num(100)))

\* ---- the decay analysis

\* the dictionary is a report of calculate_premium_metrics
IsReport(d) == d \in Reports

\* C13: for a report with premium > 0 analyze_premium_decay returns one record
\* per offset, in input order, with decay_amount = daily_theta_decay x d,
\* premium = max(0, report.premium - decay_amount), never negative, and
\* decay_percentage = decay_amount / report.premium x 100.
C13_DecayRecords ==
    (/\ pcall.method = "analyze_premium_decay"
     /\ IsReport(pcall.premium_metrics)
     /\ ~IsZero(pcall.premium_metrics.premium)) =>
        /\ perror = NoError
        /\ Len(presult.rows) = Len(pcall.time_points)
        /\ \A k \in 1..Len(pcall.time_points) :
            LET d == pcall.time_points[k]
                amount == FMul(pcall.premium_metrics.daily_theta_decay, FinV(Num(d)))
            IN  /\ presult.rows[k].days = d
                /\ presult.rows[k].decay_amount = amount
                /\ presult.rows[k].premium =
                       PyMax0(FSub(pcall.premium_metrics.premium, amount))
                /\ SignOf(presult.rows[k].premium) # -1
                /\ presult.rows[k].decay_percentage =
                       FMul(FQuot(amount, pcall.premium_metrics.premium), FinV(Num(100)))

\* C14: with report.premium = 0 analyze_premium_decay fails, for every sequence
\* of offsets, the empty one included, and with an error other than the one the
\* same call gets for a report whose premium is positive.
C14_ZeroPremiumFails ==
    (/\ pcall.method = "analyze_premium_decay"
     /\ IsReport(pcall.premium_metrics)
     /\ IsZero(pcall.premium_metrics.premium)) =>
        /\ perror # NoError
        /\ presult = None
        /\ perror # analyze_premium_decay(
                        [pcall.premium_metrics EXCEPT !.premium = FinV(Num(100))],
                        pcall.time_points).raised

\* ---- the Greeks

OtherSide(side) == IF side = "CE" THEN "PE" ELSE "CE"

\* what _calculate_greeks returns for the arguments of the call with the
\* other side
GreeksOfOtherSide ==
    calculate_greeks(pcall.current_price, pcall.strike_price, pcall.days_to_expiry,
                     pcall.volatility, OtherSide(pcall.side)).value

\* C15: for the same price, strike, days to expiry (> 0) and volatility (> 0)
\* the gamma and the vega of _calculate_greeks are the same for CE and PE.
C15_GammaVegaSideIndependent ==
    (/\ pcall.method = "_calculate_greeks"
     /\ ~Degenerate(pcall)) =>
        /\ perror = NoError
        /\ presult.gamma = GreeksOfOtherSide.gamma
        /\ presult.vega = GreeksOfOtherSide.vega

\* C15, its case: a PE call with days and volatility positive returned a
\* finite gamma and vega, and a delta that is not the CE one
C15_Witness ==
    /\ pcall.method = "_calculate_greeks"
    /\ ~Degenerate(pcall)
    /\ pcall.side = "PE"
    /\ perror = NoError
    /\ IsFinite(presult.gamma) /\ IsFinite(presult.vega)
    /\ presult.delta # GreeksOfOtherSide.delta

\* ---- the margin calculator, once more

\* the positions a direct or a portfolio call was given, in order
InputList(c) ==
    IF op[c] = "position" THEN <<args[c].position>> ELSE args[c].positions

\* the index of the first position of ps that fails validation, Len(ps) + 1
\* when none does
FirstInvalid(ps) ==
    IF AllValid(ps) THEN Len(ps) + 1
    ELSE CHOOSE k \in 1..Len(ps) :
            /\ ValidationError(ps[k]) # NoError
            /\ \A j \in 1..(k - 1) : ValidationError(ps[j]) = NoError

\* C18: validation comes before the lookup: at every moment of a direct or a
\* portfolio call the lookups made are for the positions before the first
\* invalid one, in order; a direct call on an invalid position ends with the
\* validator's error, having made no lookup.
C18_ValidationBeforeLookup ==
    \A c \in Callers :
        op[c] \in {"position", "portfolio"} =>
            /\ Len(lookups[c]) < FirstInvalid(InputList(c))
            /\ \A j \in 1..Len(lookups[c]) : lookups[c][j].position = InputList(c)[j]
            /\ (/\ op[c] = "position" /\ Ended(c)
                /\ ValidationError(args[c].position) # NoError) =>
                    /\ error[c] = ValidationError(args[c].position)
                    /\ error[c].type = "ValueError"
                    /\ result[c] = None
                    /\ lookups[c] = <<>>

\* C18, its case: a portfolio call whose second position is invalid has ended,
\* with one lookup made, for the first position
C18_Witness ==
    /\ op["A"] = "portfolio" /\ Ended("A")
    /\ Len(args["A"].positions) = 2
    /\ FirstInvalid(args["A"].positions) = 2
    /\ error["A"].type = "ValueError"
    /\ Len(lookups["A"]) = 1

RECURSIVE Kept(_, _)
Kept(options, strike_range) ==
    IF options = <<>> THEN <<>>
    ELSE IF /\ strike_range # None
            /\ \/ Get(Head(options), "strikePrice", 0) < strike_range.lower
               \/ Get(Head(options), "strikePrice", 0) > strike_range.upper
        THEN Kept(Tail(options), strike_range)
        ELSE <<Head(options)>> \o Kept(Tail(options), strike_range)

\* C17: an OptionsDataFetcher is constructed from a broker name alone (no
\* api_key, the configuration in place), and for every raw response, the empty
\* and the all-filtered ones included, the table has one row per raw option
\* whose strike is within the range, in the order of the response, and no
\* exception is raised.
C17_FetcherChain ==
    /\ (/\ fcall.method = "__init__"
        /\ fcall.api_key = None
        /\ fcall.config = "loaded") => ferror = NoError
    /\ fcall.method = "_process_option_chain" =>
           /\ ferror = NoError
           /\ LET kept == Kept(Get(fcall.raw_data, "data", <<>>), fcall.strike_range)
              IN  /\ Len(fresult.rows) = Len(kept)
                  /\ \A k \in 1..Len(kept) :
                         fresult.rows[k].strike_price = Get(kept[k], "strikePrice", 0)

\* ---- two callers

\* the lookup of a call that failed: which one (counted over the call) and how
NoFailure == [at |-> 0, answer |-> NoError]
FailureOf(c) ==
    IF \E k \in 1..Len(lookups[c]) : IsFailure(lookups[c][k].answer)
        THEN LET k == CHOOSE j \in 1..Len(lookups[c]) : IsFailure(lookups[c][j].answer)
             IN  [at |-> k, answer |-> lookups[c][k].answer]
        ELSE NoFailure

\* calculate_portfolio_margin run alone from its first line to its last, the
\* broker quoting q, the lookups numbered from made + 1 and the one numbered
\* failure.at failing: the exception or the result, and the positions asked
RECURSIVE AloneLoop(_, _, _, _, _, _)
AloneLoop(ps, q, failure, total, details, asked) ==
    IF ps = <<>>
        THEN [raised |-> NoError, value |-> PortfolioResult(total, details),
              asked |-> asked]
    ELSE IF ValidationError(Head(ps)) # NoError
        THEN [raised |-> ValidationError(Head(ps)), value |-> None, asked |-> asked]
    ELSE IF failure.at = Len(asked) + 1
        THEN [raised |-> failure.answer, value |-> None,
              asked |-> Append(asked, Head(ps))]
    ELSE AloneLoop(Tail(ps), q, failure,
                   RatAdd(total, PositionMargin(q[Head(ps)]).total_margin),
                   Append(details, [position |-> Head(ps),
                                    margin_details |-> PositionMargin(q[Head(ps)])]),
                   Append(asked, Head(ps)))

PortfolioAlone(ps, q, failure, asked) == AloneLoop(ps, q, failure, Num(0), <<>>, asked)

\* estimate_margin_impact run alone
ImpactAlone(ps, p, q, failure) ==
    LET first == PortfolioAlone(ps, q, failure, <<>>)
        second == PortfolioAlone(Append(ps, p), q, failure, first.asked)
        r == ImpactResult(first.value, second.value)
    IN  IF first.raised # NoError THEN first
        ELSE IF second.raised # NoError THEN second
        ELSE IF r.raised # NoError
            THEN [raised |-> r.raised, value |-> None, asked |-> second.asked]
        ELSE [raised |-> NoError, value |-> [k \in DOMAIN r \ {"raised"} |-> r[k]],
              asked |-> second.asked]

\* calculate_position_margin run alone
PositionAlone(p, q, failure) ==
    LET one == PortfolioAlone(<<p>>, q, failure, <<>>)
    IN  IF one.raised # NoError THEN one
        ELSE [raised |-> NoError,
              value |-> one.value.position_details[1].margin_details,
              asked |-> one.asked]

\* the call of c run alone, with the same arguments, broker and failing lookup
Alone(c) ==
    IF op[c] = "position"
        THEN PositionAlone(args[c].position, quote, FailureOf(c))
    ELSE IF op[c] = "portfolio"
        THEN PortfolioAlone(args[c].positions, quote, FailureOf(c), <<>>)
    ELSE ImpactAlone(args[c].current_positions, args[c].new_position, quote,
                     FailureOf(c))

\* C16: with two callers in margin operations at once, on different inputs and
\* in any interleaving of their steps, each call ends as it would run alone:
\* the same result or exception, after the same lookups.
C16_CallersIsolated ==
    \A c \in Callers :
        Ended(c) =>
            /\ error[c] = Alone(c).raised
            /\ result[c] = Alone(c).value
            /\ Asked(c) = Alone(c).asked

\* C16, its case: both callers have returned, one from a portfolio
\* computation on two positions and one from an estimate, with different totals
C16_Witness ==
    /\ Returned("A") /\ Returned("B")
    /\ op["A"] = "portfolio" /\ op["B"] = "impact"
    /\ Len(args["A"].positions) = 2
    /\ Len(args["B"].current_positions) = 1
    /\ result["A"].total_portfolio_margin # result["B"].new_margin
    /\ ~RatIsZero(result["A"].total_portfolio_margin)

====
